---- MODULE Spec2Model ----
(***************************************************************************)
(* Obsidian Vault Reviewer (src/obsidian_vault_reviewer.py).               *)
(*                                                                         *)
(* Two parts of the program are modelled:                                  *)
(*   - the content-preservation guard, validate_content_preservation, as   *)
(*     operators over texts (a text is a sequence of one-character         *)
(*     strings, "\n" separating its lines), exercised by GuardSpec;        *)
(*   - the review session of review_vault with its checkpoint file         *)
(*     (save_progress / load_progress), the signal handler and the note    *)
(*     store, exercised by Spec.                                           *)
(* Note keys are integers ordered as the paths they stand for are ordered. *)
(***************************************************************************)
EXTENDS Integers, Sequences, FiniteSets, TLC

(***************************************************************************)
(* Characters and texts                                                    *)
(***************************************************************************)

NL == "\n"

\* str.isspace for the characters of the model
IsSpace(c) == c \in {" ", NL}

\* the regex class \w for the characters of the model
IsWord(c) == c \in {"a", "b", "c", "d", "e", "f", "g", "h", "i", "j", "k",
                    "l", "m", "n", "o", "p", "q", "r", "s", "t", "u", "v",
                    "w", "x", "y", "z", "A", "B", "P", "0", "1", "_"}

\* str.lower for the characters of the model
Lower(c) == CASE c = "A" -> "a"
              [] c = "B" -> "b"
              [] c = "P" -> "p"
              [] OTHER -> c

\* the least element of a non-empty set of numbers
MinOf(S) == CHOOSE x \in S : \A y \in S : x <= y

\* text.split('\n'): never empty, "" splits into one empty line; the lines lie
\* between consecutive separators, the two ends of the text included
SplitLines(s) ==
    LET marks == {0, Len(s) + 1} \cup {p \in 1..Len(s) : s[p] = NL}
        MarkAt(k) == CHOOSE p \in marks : Cardinality({q \in marks : q < p}) = k - 1
    IN [k \in 1..(Cardinality(marks) - 1) |->
           SubSeq(s, MarkAt(k) + 1, MarkAt(k + 1) - 1)]

\* '\n'.join(lines)
RECURSIVE JoinLines(_)
JoinLines(ls) ==
    IF ls = << >> THEN << >>
    ELSE IF Len(ls) = 1 THEN ls[1]
         ELSE ls[1] \o << NL >> \o JoinLines(Tail(ls))

\* line.strip()
RECURSIVE LStrip(_)
LStrip(l) == IF l # << >> /\ IsSpace(Head(l)) THEN LStrip(Tail(l)) ELSE l

RECURSIVE RStrip(_)
RStrip(l) ==
    IF l # << >> /\ IsSpace(l[Len(l)]) THEN RStrip(SubSeq(l, 1, Len(l) - 1)) ELSE l

Strip(l) == RStrip(LStrip(l))

\* [line.strip() for line in text.split('\n') if line.strip()]
RECURSIVE StripNonBlank(_)
StripNonBlank(ls) ==
    IF ls = << >> THEN << >>
    ELSE IF Strip(Head(ls)) # << >>
         THEN << Strip(Head(ls)) >> \o StripNonBlank(Tail(ls))
         ELSE StripNonBlank(Tail(ls))

StrippedLines(text) == StripNonBlank(SplitLines(text))

\* normalize_text, the local function of validate_content_preservation
normalize_text(text) == JoinLines(StrippedLines(text))

\* Python's `a in b` for strings
IsSubstring(a, b) ==
    \E k \in 0..(Len(b) - Len(a)) : SubSeq(b, k + 1, k + Len(a)) = a

\* re.sub(r'[^\w\s]', '', line.lower())
RECURSIVE CleanLine(_)
CleanLine(l) ==
    IF l = << >> THEN << >>
    ELSE LET c == Lower(Head(l))
         IN IF IsWord(c) \/ IsSpace(c) THEN << c >> \o CleanLine(Tail(l))
            ELSE CleanLine(Tail(l))

\* index of the first c at or after p, 0 when there is none
FirstAt(s, p, c) ==
    LET at == {q \in p..Len(s) : s[q] = c}
    IN IF at = {} THEN 0 ELSE MinOf(at)

\* end of the run of word characters that starts at p (p - 1 when empty)
WordRunEnd(s, p) ==
    LET stops == {q \in p..Len(s) : ~IsWord(s[q])}
    IN IF stops = {} THEN Len(s) ELSE MinOf(stops) - 1

At(s, p) == IF p >= 1 /\ p <= Len(s) THEN s[p] ELSE "<none>"

\* re.findall(r'\[\[([^\]]+)\]\]', text): the captured link targets, matches
\* taken leftmost first and without overlap
RECURSIVE FindLinks(_, _)
FindLinks(s, p) ==
    LET Close(h) == FirstAt(s, h + 2, "]")
        Hit(h) == /\ At(s, h) = "[" /\ At(s, h + 1) = "["
                  /\ Close(h) > h + 2 /\ At(s, Close(h) + 1) = "]"
        starts == {h \in p..Len(s) : Hit(h)}
    IN IF starts = {} THEN {}
       ELSE LET h == MinOf(starts)
            IN {SubSeq(s, h + 2, Close(h) - 1)} \cup FindLinks(s, Close(h) + 2)

\* re.findall(r'#(\w+)', text): the captured tag names
RECURSIVE FindTags(_, _)
FindTags(s, p) ==
    LET Hit(h) == At(s, h) = "#" /\ WordRunEnd(s, h + 1) >= h + 1
        starts == {h \in p..Len(s) : Hit(h)}
    IN IF starts = {} THEN {}
       ELSE LET h == MinOf(starts)
            IN {SubSeq(s, h + 1, WordRunEnd(s, h + 1))}
                   \cup FindTags(s, WordRunEnd(s, h + 1) + 1)

\* re.findall(r'!\[[^\]]*\]\([^)]+\)', text): the whole image references
RECURSIVE FindImages(_, _)
FindImages(s, p) ==
    LET Close(h) == FirstAt(s, h + 2, "]")
        Paren(h) == IF Close(h) = 0 THEN 0 ELSE FirstAt(s, Close(h) + 2, ")")
        Hit(h) == /\ At(s, h) = "!" /\ At(s, h + 1) = "["
                  /\ Close(h) > 0 /\ At(s, Close(h) + 1) = "("
                  /\ Paren(h) > Close(h) + 2
        starts == {h \in p..Len(s) : Hit(h)}
    IN IF starts = {} THEN {}
       ELSE LET h == MinOf(starts)
            IN {SubSeq(s, h, Paren(h))} \cup FindImages(s, Paren(h) + 1)

(***************************************************************************)
(* The content-preservation guard                                          *)
(***************************************************************************)

\* the three matching rules of the inner loop, for one pair of lines
LineMatches(orig_line, enh_line) ==
    \/ orig_line = enh_line
    \/ Len(orig_line) > 10 /\ IsSubstring(orig_line, enh_line)
    \/ /\ Len(orig_line) > 5
       /\ CleanLine(orig_line) # << >>
       /\ IsSubstring(CleanLine(orig_line), CleanLine(enh_line))

\* matched_lines: the original lines matched by some enhanced line
MatchedLines(original, enhanced) ==
    LET ol == StrippedLines(original)
        el == StrippedLines(enhanced)
    IN Cardinality({k \in 1..Len(ol) :
                        \E j \in 1..Len(el) : LineMatches(ol[k], el[j])})

\* a ratio that has to exceed 0.8
RatioOk_strict(matched, total) ==
    IF total = 0 THEN TRUE ELSE 5 * matched > 4 * total

\* preservation_ratio >= 0.8, the ratio being 1 when there are no lines
RatioOk(matched, total) ==
    IF total = 0 THEN TRUE ELSE 5 * matched >= 4 * total

\* links_preserved and tags_preserved and images_preserved
MarkersPreserved(original, enhanced) ==
    /\ FindLinks(original, 1) \subseteq FindLinks(enhanced, 1)
    /\ FindTags(original, 1) \subseteq FindTags(enhanced, 1)
    /\ \A img \in FindImages(original, 1) : IsSubstring(img, enhanced)

\* the guard that asks for a candidate longer than the original
validate_longer_only(original, enhanced) ==
    IF Len(enhanced) <= Len(original) THEN FALSE
    ELSE IF IsSubstring(normalize_text(original), normalize_text(enhanced)) THEN TRUE
    ELSE /\ RatioOk(MatchedLines(original, enhanced), Len(StrippedLines(original)))
         /\ MarkersPreserved(original, enhanced)

\* validate_content_preservation: the length test, the containment of the
\* normalized original, then the line ratio with the markers
validate_content_preservation(original, enhanced) ==
    IF Len(enhanced) < Len(original) THEN FALSE
    ELSE IF IsSubstring(normalize_text(original), normalize_text(enhanced)) THEN TRUE
    ELSE /\ RatioOk(MatchedLines(original, enhanced), Len(StrippedLines(original)))
         /\ MarkersPreserved(original, enhanced)

(***************************************************************************)
(* Texts of the model                                                      *)
(***************************************************************************)

\* A note body is kept as the sequence of the names of its lines; TextOf gives
\* the string the program sees.
LineText(name) ==
    CASE name = "ab" -> << "a", "b" >>
      [] name = "tag" -> << "#", "p", "r", "o", "j", "e", "c", "t" >>
      [] name = "tag_longer" -> << "#", "p", "r", "o", "j", "e", "c", "t", "s" >>
      [] name = "tag_plain" -> << "P", "r", "o", "j", "e", "c", "t", "." >>
      [] name = "link" -> << "s", "e", "e", " ", "[", "[", "A", "l", "p", "h", "a",
                             "]", "]", " ", "n", "o", "w" >>
      [] name = "link_plain" -> << "s", "e", "e", " ", "A", "l", "p", "h", "a", " ",
                                   "n", "o", "w" >>
      [] name = "blank" -> << " " >>
      [] name = "rule" -> << "-", "-", "-", "-", "-", "-" >>
      [] name = "extra" -> << "e", "x", "t", "r", "a", " ", "p", "a", "r", "a", "g",
                              "r", "a", "p", "h" >>

LineNames == {"ab", "tag", "tag_longer", "tag_plain", "link", "link_plain", "blank",
              "rule", "extra"}

TextOf(body) == JoinLines([k \in 1..Len(body) |-> LineText(body[k])])

EmptyBody == << >>

\* the body without its k-th line
RemoveLine(body, k) ==
    IF k > Len(body) THEN body
    ELSE SubSeq(body, 1, k - 1) \o SubSeq(body, k + 1, Len(body))

\* the rewording of a line that keeps its words and loses its marker
Reworded(name) ==
    CASE name = "tag" -> "tag_plain"
      [] name = "link" -> "link_plain"
      [] OTHER -> name

(***************************************************************************)
(* The vault, the provider and the configuration                           *)
(***************************************************************************)

\* bounds of the model
MaxRuns == 2
MaxFaults == 1
MaxEnhance == 2
MaxEdits == 2

\* the notes of the vault at the first launch, and the concept titles the
\* provider can propose as atomic notes
VaultNotes == {2, 4}
AtomicTitles == {5}

Body5 == << "ab", "tag", "link", "link_plain", "tag_plain" >>
Body2 == << "ab", "tag" >>
AtomicBody == << "link_plain" >>
Body4 == << "ab", "tag", "link", "link_plain" >>
RuleBody == << "link_plain", "rule" >>

InitialVault == (2 :> Body5) @@ (4 :> Body2)

ThisVault == "vault"
OtherVault == "other"

\* default_config of load_config, restricted to the auto-decision settings
DefaultConfig == [auto_keep_enabled |-> TRUE, auto_keep_threshold |-> 7,
                  auto_delete_enabled |-> FALSE, auto_delete_threshold |-> 2]

\* the configurations configure_auto_decisions leaves in the model: auto-delete
\* switched on or off, the rest as it was
Configs == {[DefaultConfig EXCEPT !.auto_delete_enabled = d] : d \in BOOLEAN}

\* scores the provider returns for a non-empty note
Scores == {1, 5, 8}

\* the rewritten bodies the provider can return for a note
Candidates(body) ==
    {body, EmptyBody, Append(body, "extra"),
     Append(RemoveLine(body, 1), "extra"),
     Append(RemoveLine(body, 2), "extra")}

Range(f) == {f[x] : x \in DOMAIN f}

\* not content.strip()
IsBlank(text) == \A k \in 1..Len(text) : IsSpace(text[k])

\* the ascending sequence of the keys of S
RECURSIVE SortedSeq(_)
SortedSeq(S) ==
    IF S = {} THEN << >>
    ELSE LET m == CHOOSE x \in S : \A y \in S : x <= y
         IN << m >> \o SortedSeq(S \ {m})

\* sorted(list)
RECURSIVE SortList(_)
SortList(l) ==
    IF l = << >> THEN << >>
    ELSE LET m == CHOOSE k \in 1..Len(l) : \A j \in 1..Len(l) : l[k] <= l[j]
         IN << l[m] >> \o SortList(SubSeq(l, 1, m - 1) \o SubSeq(l, m + 1, Len(l)))

(***************************************************************************)
(* The relevance assessment                                                *)
(***************************************************************************)

\* how many of the score patterns of the fallback parser match in one reply
MaxMatches == 2

\* the verdicts of an assessment
Recommendations == {"remove", "enhance", "keep"}

\* the integers a reply can carry as a score: the ends of the range, the ends
\* of the verdict bands, and values past the range
ReplyScores == {0, 4, 5, 7, 8, 10, 11, 15}

\* the scores a JSON document can carry: a negative one as well
JsonScores == ReplyScores \cup {-1}

\* the integers the score patterns capture in a reply, in pattern order
MatchSeqs == UNION {[1..n -> ReplyScores] : n \in 0..MaxMatches}

\* What the provider call gives back, as analyze_note_relevance tells it apart:
\*   error       the call or response.text raises
\*   scalar      JSON that is no dictionary and on which the field test or the
\*               subscript raises (a number, a string naming the three fields)
\*   object      a JSON dictionary with the three fields
\*   incomplete  JSON without the three fields (a dictionary lacking one, a list)
\*   unparsed    text json.loads rejects, also after clean_json_response
\* A JSON true or false is a number for isinstance(..., (int, float)).
Replies ==
    {[kind |-> k, score_type |-> "number", score |-> 0, recommendation |-> "none",
      matches |-> << >>] : k \in {"error", "scalar"}}
    \cup {[kind |-> "object", score_type |-> t, score |-> n, recommendation |-> r,
           matches |-> << >>] :
             t \in {"number", "string"}, n \in JsonScores,
             r \in Recommendations \cup {"maybe"}}
    \cup {[kind |-> k, score_type |-> "number", score |-> 0,
           recommendation |-> "none", matches |-> m] :
             k \in {"incomplete", "unparsed"}, m \in MatchSeqs}

NoReply ==
    [kind |-> "none", score_type |-> "number", score |-> 0,
     recommendation |-> "none", matches |-> << >>]

NoResult == [score |-> 0, recommendation |-> "none"]

\* the error of the provider call leaves analyze_note_relevance
RaisedAnalysis == [score |-> -1, recommendation |-> "raised"]

\* the result of the except branch of analyze_note_relevance
DefaultAnalysis == [score |-> 5, recommendation |-> "enhance"]

\* the verdict derived from a score
RecommendationFor(score) ==
    IF score <= 4 THEN "remove"
    ELSE IF score <= 7 THEN "enhance"
    ELSE "keep"

\* the loop over score_patterns: every match overwrites the score, and the
\* loop stops at the first one inside 0..10
RECURSIVE FallbackScore(_, _)
FallbackScore(matches, score) ==
    IF matches = << >> THEN score
    ELSE IF 0 <= Head(matches) /\ Head(matches) <= 10 THEN Head(matches)
    ELSE FallbackScore(Tail(matches), Head(matches))

\* parse_ai_response_fallback, without the reasoning
parse_ai_response_fallback(matches) ==
    LET score == FallbackScore(matches, 5)
    IN [score_type |-> "number", score |-> score,
        recommendation |-> RecommendationFor(score)]

\* the assessment that returns the parsed score as it is
analyze_unvalidated(text, reply) ==
    IF IsBlank(text) THEN [score |-> 0, recommendation |-> "remove"]
    ELSE IF reply.kind \in {"error", "scalar"} THEN DefaultAnalysis
    ELSE LET result == IF reply.kind = "object"
                       THEN [score_type |-> reply.score_type, score |-> reply.score,
                             recommendation |-> reply.recommendation]
                       ELSE parse_ai_response_fallback(reply.matches)
         IN [score |-> result.score,
             recommendation |-> IF result.recommendation \notin Recommendations
                                THEN RecommendationFor(result.score)
                                ELSE result.recommendation]

\* analyze_note_relevance, without the reasoning: the early return for a blank
\* note, the parsing, the validation of score and verdict, the except branch
analyze_note_relevance(text, reply) ==
    IF IsBlank(text) THEN [score |-> 0, recommendation |-> "remove"]
    ELSE IF reply.kind \in {"error", "scalar"} THEN DefaultAnalysis
    ELSE LET result == IF reply.kind = "object"
                       THEN [score_type |-> reply.score_type, score |-> reply.score,
                             recommendation |-> reply.recommendation]
                       ELSE parse_ai_response_fallback(reply.matches)
             score == IF \/ result.score_type # "number"
                         \/ ~(0 <= result.score /\ result.score <= 10)
                      THEN 5 ELSE result.score
         IN [score |-> score,
             recommendation |-> IF result.recommendation \notin Recommendations
                                THEN RecommendationFor(score)
                                ELSE result.recommendation]

(***************************************************************************)
(* The retry loop around a provider call                                   *)
(***************************************************************************)

\* the largest max_retries a caller passes; the default is 5
MaxRetries == 5

\* the ceiling of a delay, in seconds
DelayCap == 60

\* the errors a provider call raises
ProviderErrors == {"ResourceExhausted", "ServiceUnavailable", "InvalidArgument"}

\* a loop that takes every error for a transient one
is_transient_any(err) == TRUE

\* except (ResourceExhausted, ServiceUnavailable)
is_transient(err) == err \in {"ResourceExhausted", "ServiceUnavailable"}

\* a loop that never gives up
retries_never_exhausted(attempt, max_retries) == FALSE

\* if attempt == max_retries
retries_exhausted(attempt, max_retries) == attempt = max_retries

RECURSIVE Pow2(_)
Pow2(n) == IF n = 0 THEN 1 ELSE 2 * Pow2(n - 1)

\* min(base_delay * (2 ** attempt) + jitter, 60), the jitter at an end of [0, 1]
backoff_delay(base_delay, attempt, jitter) ==
    LET delay == base_delay * Pow2(attempt) + jitter
    IN IF delay < DelayCap THEN delay ELSE DelayCap

(***************************************************************************)
(* State                                                                   *)
(***************************************************************************)

VARIABLES
    \* the disk
    vault,                  \* the note store: key -> body of the files that exist
    progress_file,          \* .obsidian_review_progress.json
    settings_file,          \* ~/.obsidian_vault_reviewer_settings.json, merged with the defaults
    \* the fields of ObsidianVaultReviewer
    processed_files, deleted_files, kept_files, enhanced_files,
    atomic_notes_created, atomic_notes_reviewed, original_session_start, config,
    new_atomic_notes_queue,
    vault_knowledge,        \* the titles load_vault_knowledge found
    \* the locals of review_vault
    pc, continuing_session, files_to_process, i, file_path, content,
    is_created_atomic_note, enhanced_content, decision,
    save_return,            \* where control goes when save_progress returns
    \* history
    runs,                   \* launches so far, the clock of the model
    faults,                 \* failures of the environment so far
    enhances,               \* rewriting calls to the provider so far
    read_failed,            \* read_file_content failed for the current note
    offered,                \* the notes the loop of this run has taken up, in order
    \* the guard exercised alone
    g_original, g_enhanced, g_result,
    g_edits,                \* edits made to the candidate so far
    \* the assessment exercised alone
    a_content,              \* the content handed to analyze_note_relevance
    a_reply,                \* what the provider call gives back
    a_result,               \* the dictionary analyze_note_relevance returns
    \* handle_rate_limiting
    r_max_retries, r_base_delay,
    r_attempt,              \* the loop variable
    r_calls,                \* calls of func so far
    r_sleeps,               \* calls of time.sleep so far
    r_delay,                \* the argument of the last time.sleep
    r_error,                \* what the last call of func raised
    r_status                \* running, returned, raised_transient or raised_other

diskVars == << vault, progress_file, settings_file >>
listVars == << processed_files, deleted_files, kept_files, enhanced_files,
               atomic_notes_created, atomic_notes_reviewed >>
fieldVars == << listVars, original_session_start, config, new_atomic_notes_queue,
               vault_knowledge >>
loopVars == << continuing_session, files_to_process, i, file_path, content,
               is_created_atomic_note, enhanced_content, decision, save_return >>
histVars == << runs, faults, enhances, read_failed, offered >>
guardVars == << g_original, g_enhanced, g_result, g_edits >>
analysisVars == << a_content, a_reply, a_result >>
retryVars == << r_max_retries, r_base_delay, r_attempt, r_calls, r_sleeps, r_delay,
               r_error, r_status >>
vars == << diskVars, fieldVars, pc, loopVars, histVars, guardVars, analysisVars,
          retryVars, offered >>

(***************************************************************************)
(* The checkpoint file                                                     *)
(***************************************************************************)

NoCheckpoint ==
    [kind |-> "absent", vault_path |-> ThisVault, malformed |-> "none",
     session_start |-> 0, processed_files |-> {}, deleted_files |-> << >>,
     kept_files |-> << >>, enhanced_files |-> << >>, atomic_notes_created |-> << >>,
     atomic_notes_reviewed |-> << >>, config |-> DefaultConfig]

\* the file after open(progress_file, 'w') and before json.dump has finished:
\* no JSON document
Truncated == [NoCheckpoint EXCEPT !.kind = "truncated"]

\* progress_data of save_progress
ProgressData ==
    [kind |-> "ok", vault_path |-> ThisVault, malformed |-> "none",
     session_start |-> original_session_start,
     processed_files |-> processed_files, deleted_files |-> deleted_files,
     kept_files |-> kept_files, enhanced_files |-> enhanced_files,
     atomic_notes_created |-> atomic_notes_created,
     atomic_notes_reviewed |-> atomic_notes_reviewed, config |-> config]

\* the order in which load_progress assigns the fields
FieldOrder == << "processed_files", "deleted_files", "kept_files", "enhanced_files",
                 "atomic_notes_created", "atomic_notes_reviewed", "session_start",
                 "config" >>

FieldIndex(f) == CHOOSE k \in 1..Len(FieldOrder) : FieldOrder[k] = f

\* the fields whose conversion raises on a malformed value: set(...), Path(f),
\* config.update(...)
RaisingFields == {"processed_files", "deleted_files", "kept_files", "enhanced_files",
                  "config"}

(***************************************************************************)
(* Process start and end                                                   *)
(***************************************************************************)

\* no retry loop is running
RetryIdle ==
    /\ r_max_retries = 0 /\ r_base_delay = 0 /\ r_attempt = 0 /\ r_calls = 0
    /\ r_sleeps = 0 /\ r_delay = 0 /\ r_error = "none" /\ r_status = "none"

\* the disk before the first launch, and no process
StartState ==
    /\ vault = InitialVault
    /\ progress_file = NoCheckpoint
    /\ settings_file = DefaultConfig
    /\ processed_files = {}
    /\ deleted_files = << >> /\ kept_files = << >> /\ enhanced_files = << >>
    /\ atomic_notes_created = << >> /\ atomic_notes_reviewed = << >>
    /\ original_session_start = 0
    /\ config = DefaultConfig
    /\ new_atomic_notes_queue = << >>
    /\ vault_knowledge = {}
    /\ continuing_session = FALSE
    /\ files_to_process = << >>
    /\ i = 0
    /\ file_path = 0
    /\ content = EmptyBody
    /\ is_created_atomic_note = FALSE
    /\ enhanced_content = EmptyBody
    /\ decision = "none"
    /\ save_return = "loop"
    /\ runs = 0 /\ faults = 0 /\ enhances = 0
    /\ read_failed = FALSE
    /\ offered = << >>

Init ==
    /\ StartState
    /\ pc = "down"
    /\ g_original = EmptyBody /\ g_enhanced = EmptyBody /\ g_result = FALSE
    /\ g_edits = 0
    /\ a_content = EmptyBody /\ a_reply = NoReply /\ a_result = NoResult
    /\ RetryIdle

\* the process is gone: its memory is lost, the disk stays
ProcessExit ==
    /\ pc' = "down"
    /\ processed_files' = {}
    /\ deleted_files' = << >> /\ kept_files' = << >> /\ enhanced_files' = << >>
    /\ atomic_notes_created' = << >> /\ atomic_notes_reviewed' = << >>
    /\ original_session_start' = 0
    /\ config' = DefaultConfig
    /\ new_atomic_notes_queue' = << >>
    /\ vault_knowledge' = {}
    /\ continuing_session' = FALSE
    /\ files_to_process' = << >>
    /\ i' = 0
    /\ file_path' = 0
    /\ content' = EmptyBody
    /\ is_created_atomic_note' = FALSE
    /\ enhanced_content' = EmptyBody
    /\ decision' = "none"
    /\ save_return' = "loop"
    /\ read_failed' = FALSE
    /\ offered' = << >>

Running == pc \notin {"down", "guard", "validated", "analysis", "analysed", "retry"}

\* main() constructs the object: __init__ empties the lists, installs the
\* signal handlers and loads the settings file
Launch ==
    /\ pc = "down"
    /\ runs < MaxRuns
    /\ runs' = runs + 1
    /\ pc' = "load"
    /\ original_session_start' = runs + 1
    /\ config' = settings_file
    /\ UNCHANGED << diskVars, listVars, new_atomic_notes_queue, vault_knowledge,
                    loopVars, faults, enhances, read_failed, guardVars, analysisVars, retryVars, offered >>

(***************************************************************************)
(* load_progress and the start of review_vault                             *)
(***************************************************************************)

\* the load that does not compare the vault path
LoadReaches_any_vault == progress_file.kind = "ok"

\* load_progress reaches its assignments: the file exists, json.load succeeds
\* and the vault path is this vault's
LoadReaches ==
    /\ progress_file.kind = "ok"
    /\ progress_file.vault_path = ThisVault

\* the assignment of field f is executed: no earlier conversion has raised
Applied(f) ==
    /\ LoadReaches
    /\ \/ progress_file.malformed = "none"
       \/ FieldIndex(f) < FieldIndex(progress_file.malformed)

\* the return value of load_progress
LoadSucceeds == LoadReaches /\ progress_file.malformed = "none"

\* the fields of the object after load_progress
load_progress ==
    /\ processed_files' = IF Applied("processed_files")
                          THEN progress_file.processed_files ELSE processed_files
    /\ deleted_files' = IF Applied("deleted_files")
                        THEN progress_file.deleted_files ELSE deleted_files
    /\ kept_files' = IF Applied("kept_files")
                     THEN progress_file.kept_files ELSE kept_files
    /\ enhanced_files' = IF Applied("enhanced_files")
                         THEN progress_file.enhanced_files ELSE enhanced_files
    /\ atomic_notes_created' = IF Applied("atomic_notes_created")
                               THEN progress_file.atomic_notes_created
                               ELSE atomic_notes_created
    /\ atomic_notes_reviewed' = IF Applied("atomic_notes_reviewed")
                                THEN progress_file.atomic_notes_reviewed
                                ELSE atomic_notes_reviewed
    /\ original_session_start' = IF Applied("session_start")
                                 THEN progress_file.session_start
                                 ELSE original_session_start
    /\ config' = IF Applied("config") THEN progress_file.config ELSE config

\* review_vault: if self.load_progress()
LoadProgress ==
    /\ pc = "load"
    /\ load_progress
    /\ pc' = IF LoadSucceeds THEN "ask_continue" ELSE "configure"
    /\ UNCHANGED << diskVars, new_atomic_notes_queue, vault_knowledge, loopVars,
                    histVars, guardVars, analysisVars, retryVars, offered >>

\* the operator's answer to "continue the previous review session?"; on "no"
\* the progress is reset
AskContinue ==
    /\ pc = "ask_continue"
    /\ \E answer \in BOOLEAN :
        /\ continuing_session' = answer
        /\ IF answer
           THEN UNCHANGED listVars
           ELSE /\ processed_files' = {}
                /\ deleted_files' = << >> /\ kept_files' = << >>
                /\ enhanced_files' = << >>
                /\ atomic_notes_created' = << >> /\ atomic_notes_reviewed' = << >>
    /\ pc' = "configure"
    /\ UNCHANGED << diskVars, original_session_start, config, new_atomic_notes_queue, vault_knowledge,
                    files_to_process, i,
                    file_path, content, is_created_atomic_note, enhanced_content,
                    decision, save_return, histVars, guardVars, analysisVars, retryVars, offered >>

\* the configuration prompt: declined, or configure_auto_decisions, which ends
\* with save_config
ConfigureAuto ==
    /\ pc = "configure"
    /\ \/ UNCHANGED << config, settings_file >>
       \/ \E c \in Configs : config' = c /\ settings_file' = c
    /\ pc' = "scan"
    /\ UNCHANGED << vault, progress_file, listVars, original_session_start,
                    new_atomic_notes_queue,
                    vault_knowledge, loopVars, histVars, guardVars, analysisVars, retryVars, offered >>

\* get_yes_no_input on KeyboardInterrupt or EOFError: sys.exit(0), nothing saved
ExitAtYesNo ==
    /\ pc \in {"ask_continue", "configure", "enh_confirm"}
    /\ ProcessExit
    /\ UNCHANGED << diskVars, runs, faults, enhances, guardVars, analysisVars, retryVars >>

\* the process is killed or the machine stops
Crash ==
    /\ Running
    /\ ProcessExit
    /\ UNCHANGED << diskVars, runs, faults, enhances, guardVars, analysisVars, retryVars >>

(***************************************************************************)
(* save_progress                                                           *)
(***************************************************************************)

\* open(self.progress_file, 'w'): the file is truncated, or the open fails and
\* the exception is swallowed
SaveOpen ==
    /\ pc = "save_open"
    /\ \/ /\ progress_file' = Truncated
          /\ pc' = "save_dump"
          /\ UNCHANGED faults
       \/ /\ faults < MaxFaults
          /\ faults' = faults + 1
          /\ pc' = save_return
          /\ UNCHANGED progress_file
    /\ UNCHANGED << vault, settings_file, fieldVars, loopVars, runs, enhances,
                    read_failed, guardVars, analysisVars, retryVars, offered >>

\* json.dump whose failure leaves save_progress and ends the traversal
SaveDump_aborts ==
    /\ pc = "save_dump"
    /\ \/ /\ progress_file' = ProgressData
          /\ pc' = save_return
          /\ UNCHANGED faults
       \/ /\ faults < MaxFaults
          /\ faults' = faults + 1
          /\ pc' = "finish"
          /\ UNCHANGED progress_file
    /\ UNCHANGED << vault, settings_file, fieldVars, loopVars, runs, enhances,
                    read_failed, guardVars, analysisVars, retryVars, offered >>

\* json.dump(progress_data, f): the document is written, or the write fails part
\* way and the exception is swallowed
SaveDump ==
    /\ pc = "save_dump"
    /\ \/ /\ progress_file' = ProgressData
          /\ UNCHANGED faults
       \/ /\ faults < MaxFaults
          /\ faults' = faults + 1
          /\ UNCHANGED progress_file
    /\ pc' = save_return
    /\ UNCHANGED << vault, settings_file, fieldVars, loopVars, runs, enhances,
                    read_failed, guardVars, analysisVars, retryVars, offered >>

\* SIGINT or SIGTERM at any point after __init__: save_progress, then sys.exit(0)
SignalHandler ==
    /\ Running
    /\ \/ /\ progress_file' = ProgressData
          /\ UNCHANGED faults
       \/ /\ faults < MaxFaults
          /\ faults' = faults + 1
          /\ progress_file' \in {progress_file, Truncated}
    /\ ProcessExit
    /\ UNCHANGED << vault, settings_file, runs, enhances, guardVars, analysisVars, retryVars >>

\* between two runs the checkpoint file is damaged or replaced: cut short, one
\* field given a value its conversion rejects, or a file of another vault
Tamper ==
    /\ pc = "down"
    /\ progress_file.kind = "ok"
    /\ progress_file.malformed = "none"
    /\ progress_file.vault_path = ThisVault
    /\ faults < MaxFaults
    /\ faults' = faults + 1
    /\ \/ progress_file' = Truncated
       \/ \E f \in RaisingFields : progress_file' = [progress_file EXCEPT !.malformed = f]
       \/ progress_file' = [progress_file EXCEPT !.vault_path = OtherVault]
    /\ UNCHANGED << vault, settings_file, fieldVars, pc, loopVars, runs, enhances,
                    read_failed, guardVars, analysisVars, retryVars, offered >>

(***************************************************************************)
(* The traversal                                                           *)
(***************************************************************************)

\* the enumeration without the filter on the finalized set
find_markdown_files_unfiltered == SortedSeq(DOMAIN vault)

\* find_markdown_files: the notes of the vault in path order, without the
\* finalized ones when there are any
find_markdown_files ==
    LET md_files == SortedSeq(DOMAIN vault)
    IN IF processed_files # {}
       THEN SelectSeq(md_files, LAMBDA f : f \notin processed_files)
       ELSE md_files

check_auto_decision(score) ==
    IF config.auto_keep_enabled /\ score >= config.auto_keep_threshold THEN "auto_keep"
    ELSE IF config.auto_delete_enabled /\ score <= config.auto_delete_threshold
         THEN "auto_delete"
    ELSE "none"

\* the scores analyze_note_relevance can return for a text: 0 for a blank one,
\* else the provider's score, or 5 when the call or the parsing fails
AnalysisScores(text) == IF IsBlank(text) THEN {0} ELSE Scores \cup {5}

\* cleanup_progress_file
cleanup_progress_file == progress_file' = NoCheckpoint

\* review_vault from load_vault_knowledge to the first save_progress; with
\* nothing to review it returns, after removing the checkpoint of a continued
\* session
Scan ==
    /\ pc = "scan"
    /\ IF find_markdown_files = << >>
       THEN /\ IF continuing_session THEN cleanup_progress_file
                                     ELSE UNCHANGED progress_file
            /\ ProcessExit
       ELSE /\ vault_knowledge' = DOMAIN vault
            /\ new_atomic_notes_queue' = << >>
            /\ files_to_process' = find_markdown_files
            /\ i' = 0
            /\ offered' = << >>
            /\ pc' = "save_open"
            /\ save_return' = "loop"
            /\ UNCHANGED << progress_file, listVars, original_session_start, config, continuing_session,
                            file_path, content, is_created_atomic_note,
                            enhanced_content, decision, read_failed >>
    /\ UNCHANGED << vault, settings_file, runs, faults, enhances, guardVars, analysisVars, retryVars >>

\* an append that does not look at the outcome
ListAppend_always(l, x, cond) == Append(l, x)

\* the list after list.append(x)
ListAppend(l, x, cond) == IF cond THEN Append(l, x) ELSE l

\* delete_file: the unlink succeeds and the note is gone, or it raises and the
\* note stays; it cannot succeed on a missing file
delete_file(f, deleted) ==
    /\ deleted => f \in DOMAIN vault
    /\ vault' = IF deleted THEN [k \in DOMAIN vault \ {f} |-> vault[k]] ELSE vault

\* the failures of the environment a step asks for fit the bound
Fault(n) == faults + n <= MaxFaults /\ faults' = faults + n

Failed(cond) == IF cond THEN 1 ELSE 0

\* the head of one iteration: the note is read and analysed; an automatic
\* decision is applied up to the list updates, else the note is shown
NextNote ==
    /\ pc = "loop"
    /\ i < Len(files_to_process)
    /\ \E read_ok, deleted \in BOOLEAN :
        LET f == files_to_process[i + 1]
            exists == f \in DOMAIN vault
            text == IF read_ok THEN vault[f] ELSE EmptyBody
            created == f \in Range(atomic_notes_created)
        IN
        /\ read_ok => exists
        /\ read_failed' = ~read_ok
        /\ file_path' = f
        /\ i' = i + 1
        /\ offered' = Append(offered, f)
        /\ content' = text
        /\ is_created_atomic_note' = created
        /\ \E score \in AnalysisScores(TextOf(text)) :
             LET auto == check_auto_decision(score) IN
             CASE auto = "auto_keep" ->
                    /\ deleted
                    /\ Fault(Failed(~read_ok /\ exists))
                    /\ kept_files' = Append(kept_files, f)
                    /\ atomic_notes_reviewed' =
                           ListAppend(atomic_notes_reviewed, f, created)
                    /\ decision' = "keep"
                    /\ pc' = "record"
                    /\ UNCHANGED << vault, deleted_files >>
               [] auto = "auto_delete" ->
                    /\ Fault(Failed(~read_ok /\ exists) + Failed(~deleted /\ exists))
                    /\ delete_file(f, deleted)
                    /\ deleted_files' = ListAppend(deleted_files, f, deleted)
                    /\ atomic_notes_reviewed' =
                           ListAppend(atomic_notes_reviewed, f, deleted /\ created)
                    /\ decision' = "delete"
                    /\ pc' = "record"
                    /\ UNCHANGED kept_files
               [] OTHER ->
                    /\ deleted
                    /\ Fault(Failed(~read_ok /\ exists))
                    /\ pc' = "prompt"
                    /\ UNCHANGED << vault, kept_files, deleted_files,
                                    atomic_notes_reviewed, decision >>
    /\ UNCHANGED << progress_file, settings_file, processed_files, enhanced_files,
                    atomic_notes_created, original_session_start, config, new_atomic_notes_queue,
                    vault_knowledge, continuing_session, files_to_process, enhanced_content,
                    save_return, runs, enhances, guardVars, analysisVars, retryVars >>

\* get_user_decision at the first prompt: keep, delete or skip update the lists;
\* quit, also on KeyboardInterrupt, leaves the loop body
Decide ==
    /\ pc = "prompt"
    /\ \E d \in {"keep", "delete", "skip", "quit"}, deleted \in BOOLEAN :
        LET f == file_path
            removed == d = "delete" /\ deleted
        IN
        /\ decision' = d
        /\ IF d = "delete"
           THEN /\ Fault(Failed(~deleted /\ f \in DOMAIN vault))
                /\ delete_file(f, deleted)
           ELSE deleted /\ UNCHANGED << vault, faults >>
        /\ deleted_files' = ListAppend(deleted_files, f, removed)
        /\ kept_files' = ListAppend(kept_files, f, d = "keep")
        /\ atomic_notes_reviewed' =
               ListAppend(atomic_notes_reviewed, f,
                          is_created_atomic_note /\ (d \in {"keep", "skip"} \/ removed))
        /\ pc' = IF d = "quit" THEN "after" ELSE "record"
    /\ UNCHANGED << progress_file, settings_file, processed_files, enhanced_files,
                    atomic_notes_created, original_session_start, config, new_atomic_notes_queue,
                    vault_knowledge, continuing_session, files_to_process, i, file_path, content,
                    is_created_atomic_note, enhanced_content, save_return, runs,
                    enhances, read_failed, guardVars, analysisVars, retryVars, offered >>

\* 'view' at either prompt, and 'enhance' at the prompt of an enhanced note:
\* the note is displayed again and the prompt repeats
View ==
    /\ pc \in {"prompt", "enh_prompt"}
    /\ UNCHANGED vars

\* a finalized set that forgets what it held
processed_replace(S, f) == {f}

\* self.processed_files.add(str(file_path))
processed_add(S, f) == S \cup {f}

\* self.processed_files.add(str(file_path)); self.save_progress()
Finalize ==
    /\ pc = "record"
    /\ processed_files' = processed_add(processed_files, file_path)
    /\ pc' = "save_open"
    /\ save_return' = "after"
    /\ UNCHANGED << diskVars, deleted_files, kept_files, enhanced_files,
                    atomic_notes_created, atomic_notes_reviewed, original_session_start, config,
                    new_atomic_notes_queue, vault_knowledge, continuing_session,
                    files_to_process, i, file_path, content, is_created_atomic_note,
                    enhanced_content, decision, histVars, guardVars, analysisVars, retryVars, offered >>

(***************************************************************************)
(* Enhancement                                                             *)
(***************************************************************************)

\* enhance_note without its safety check
enhance_note_unguarded(original, reply_ok, reply) ==
    IF reply_ok THEN reply ELSE original

\* the value enhance_note returns: the provider's rewrite when the call
\* succeeds and the guard accepts it, else the content it was given
enhance_note(original, reply_ok, reply) ==
    IF reply_ok /\ validate_content_preservation(TextOf(original), TextOf(reply))
    THEN reply ELSE original

\* 'enhance' at the first prompt: enhance_note creates the atomic notes of the
\* concepts that are new, then asks for the rewrite; a result that differs from
\* the content is put to the operator
Enhance ==
    /\ pc = "prompt"
    /\ enhances < MaxEnhance
    /\ enhances' = enhances + 1
    /\ decision' = "enhance"
    /\ \E concepts \in SUBSET AtomicTitles, reply_ok \in BOOLEAN,
          reply \in Candidates(content) :
        LET created == SortedSeq({t \in concepts : /\ t \notin vault_knowledge
                                                    /\ t \notin DOMAIN vault})
            result == enhance_note(content, reply_ok, reply)
        IN
        /\ vault' = [k \in DOMAIN vault \cup Range(created) |->
                        IF k \in DOMAIN vault THEN vault[k] ELSE AtomicBody]
        /\ new_atomic_notes_queue' = new_atomic_notes_queue \o created
        /\ atomic_notes_created' = atomic_notes_created \o created
        /\ IF TextOf(result) # TextOf(content)
           THEN enhanced_content' = result /\ pc' = "enh_confirm"
           ELSE UNCHANGED << enhanced_content, pc >>
    /\ UNCHANGED << progress_file, settings_file, processed_files, deleted_files,
                    kept_files, enhanced_files, atomic_notes_reviewed, original_session_start, config,
                    vault_knowledge, continuing_session, files_to_process, i,
                    file_path, content, is_created_atomic_note, save_return, runs,
                    faults, read_failed, guardVars, analysisVars, retryVars, offered >>

\* "Save this enhanced version?" answered no: back to the prompt
EnhanceCancelled ==
    /\ pc = "enh_confirm"
    /\ pc' = "prompt"
    /\ UNCHANGED << diskVars, fieldVars, loopVars, histVars, guardVars, analysisVars, retryVars, offered >>

\* save_enhanced_note fails: the note file is untouched or left empty by the
\* truncating open, and the prompt repeats
SaveEnhancedFailed ==
    /\ pc = "enh_confirm"
    /\ Fault(1)
    /\ \/ UNCHANGED vault
       \/ /\ file_path \in DOMAIN vault
          /\ vault' = [vault EXCEPT ![file_path] = EmptyBody]
    /\ pc' = "prompt"
    /\ UNCHANGED << progress_file, settings_file, fieldVars, loopVars, runs, enhances,
                    read_failed, guardVars, analysisVars, retryVars, offered >>

\* save_enhanced_note succeeds: the note is overwritten, recorded as enhanced
\* and analysed again; an automatic decision is applied up to the list updates
SaveEnhanced ==
    /\ pc = "enh_confirm"
    /\ enhanced_files' = Append(enhanced_files, file_path)
    /\ \E score \in AnalysisScores(TextOf(enhanced_content)), deleted \in BOOLEAN :
        LET f == file_path
            auto == check_auto_decision(score)
            written == [k \in DOMAIN vault \cup {f} |->
                           IF k = f THEN enhanced_content ELSE vault[k]]
        IN
        CASE auto = "auto_keep" ->
               /\ deleted
               /\ vault' = written
               /\ kept_files' = Append(kept_files, f)
               /\ atomic_notes_reviewed' =
                      ListAppend(atomic_notes_reviewed, f, is_created_atomic_note)
               /\ pc' = "record"
               /\ UNCHANGED << deleted_files, faults >>
          [] auto = "auto_delete" ->
               /\ Fault(Failed(~deleted))
               /\ vault' = IF deleted THEN [k \in DOMAIN written \ {f} |-> written[k]]
                                      ELSE written
               /\ deleted_files' = ListAppend(deleted_files, f, deleted)
               /\ atomic_notes_reviewed' =
                      ListAppend(atomic_notes_reviewed, f,
                                 deleted /\ is_created_atomic_note)
               /\ pc' = "record"
               /\ UNCHANGED kept_files
          [] OTHER ->
               /\ deleted
               /\ vault' = written
               /\ pc' = "enh_prompt"
               /\ UNCHANGED << kept_files, deleted_files, atomic_notes_reviewed,
                               faults >>
    /\ UNCHANGED << progress_file, settings_file, processed_files,
                    atomic_notes_created, original_session_start, config, new_atomic_notes_queue,
                    vault_knowledge, continuing_session, files_to_process, i,
                    file_path, content, is_created_atomic_note, enhanced_content,
                    decision, save_return, runs, enhances, read_failed, guardVars, analysisVars, retryVars, offered >>

\* get_user_decision at the prompt of an enhanced note: every final answer,
\* quit included, goes on to processed_files.add and save_progress
EnhDecide ==
    /\ pc = "enh_prompt"
    /\ \E d \in {"keep", "delete", "skip", "quit"}, deleted \in BOOLEAN :
        LET f == file_path
            removed == d = "delete" /\ deleted
        IN
        /\ decision' = IF d = "quit" THEN "quit" ELSE decision
        /\ IF d = "delete"
           THEN /\ Fault(Failed(~deleted /\ f \in DOMAIN vault))
                /\ delete_file(f, deleted)
           ELSE deleted /\ UNCHANGED << vault, faults >>
        /\ deleted_files' = ListAppend(deleted_files, f, removed)
        /\ kept_files' = ListAppend(kept_files, f, d = "keep")
        /\ atomic_notes_reviewed' =
               ListAppend(atomic_notes_reviewed, f,
                          is_created_atomic_note /\ (d \in {"keep", "skip"} \/ removed))
        /\ pc' = "record"
    /\ UNCHANGED << progress_file, settings_file, processed_files, enhanced_files,
                    atomic_notes_created, original_session_start, config, new_atomic_notes_queue,
                    vault_knowledge, continuing_session, files_to_process, i,
                    file_path, content, is_created_atomic_note, enhanced_content,
                    save_return, runs, enhances, read_failed, guardVars, analysisVars, retryVars, offered >>

(***************************************************************************)
(* The end of an iteration and of the review                               *)
(***************************************************************************)

\* an insertion at the head of the list
InsertPos_front(files, pos, new) == IF files = << >> THEN pos + 1 ELSE 1

\* insert_pos for a new note: the first pending position whose note sorts after
\* it, else the current position
InsertPos(files, pos, new) ==
    LET later == {j \in (pos + 1)..Len(files) : new < files[j]}
    IN IF later = {} THEN pos + 1
       ELSE CHOOSE j \in later : \A k \in later : j <= k

\* the insertion that does not look at the finalized set
ListInsert_unchecked(files, pos, new) ==
    IF new \notin Range(files)
    THEN LET at == InsertPos(files, pos, new)
         IN SubSeq(files, 1, at - 1) \o << new >> \o SubSeq(files, at, Len(files))
    ELSE files

\* files.insert(insert_pos, new), done only for a note neither finalized nor
\* already in the list
ListInsert(files, pos, new) ==
    IF new \notin processed_files /\ new \notin Range(files)
    THEN LET at == InsertPos(files, pos, new)
         IN SubSeq(files, 1, at - 1) \o << new >> \o SubSeq(files, at, Len(files))
    ELSE files

\* the loop over sorted(new_notes)
RECURSIVE InsertNewNotes(_, _, _)
InsertNewNotes(files, pos, new_notes) ==
    IF new_notes = << >> THEN files
    ELSE InsertNewNotes(ListInsert(files, pos, Head(new_notes)), pos, Tail(new_notes))

\* the tail of one iteration: the queue of new atomic notes is emptied into
\* the work list, and quit breaks out of the loop; the locals of the iteration
\* are dead from here on and are cleared
AfterNote ==
    /\ pc = "after"
    /\ files_to_process' =
           InsertNewNotes(files_to_process, i, SortList(new_atomic_notes_queue))
    /\ new_atomic_notes_queue' = << >>
    /\ pc' = IF decision = "quit" THEN "finish" ELSE "loop"
    /\ content' = EmptyBody /\ enhanced_content' = EmptyBody
    /\ is_created_atomic_note' = FALSE /\ read_failed' = FALSE
    /\ decision' = IF decision = "quit" THEN "quit" ELSE "none"
    /\ UNCHANGED << diskVars, listVars, original_session_start, config, vault_knowledge, continuing_session, i,
                    file_path, save_return, runs, faults, enhances, guardVars, analysisVars, retryVars, offered >>

\* the end of review_vault that removes the checkpoint whatever the decision
Finish_always_cleanup ==
    /\ \/ pc = "finish"
       \/ pc = "loop" /\ i >= Len(files_to_process)
    /\ cleanup_progress_file
    /\ ProcessExit
    /\ UNCHANGED << vault, settings_file, runs, faults, enhances, guardVars, analysisVars, retryVars >>

\* after the loop: the summary and the session log, and the checkpoint is
\* removed unless the operator quit
Finish ==
    /\ \/ pc = "finish"
       \/ pc = "loop" /\ i >= Len(files_to_process)
    /\ IF decision # "quit" THEN cleanup_progress_file ELSE UNCHANGED progress_file
    /\ ProcessExit
    /\ UNCHANGED << vault, settings_file, runs, faults, enhances, guardVars, analysisVars, retryVars >>

Next ==
    \/ Launch \/ LoadProgress \/ AskContinue \/ ConfigureAuto \/ ExitAtYesNo
    \/ Crash \/ SignalHandler \/ Tamper
    \/ Scan \/ SaveOpen \/ SaveDump
    \/ NextNote \/ Decide \/ View \/ Finalize
    \/ Enhance \/ EnhanceCancelled \/ SaveEnhancedFailed \/ SaveEnhanced \/ EnhDecide
    \/ AfterNote \/ Finish

Spec == Init /\ [][Next]_vars

(***************************************************************************)
(* The guard exercised alone                                               *)
(***************************************************************************)

\* the originals the guard is exercised on
GuardOriginals ==
    {Body5, Body4, Body2, AtomicBody, RuleBody, EmptyBody, << "link", "blank", "tag" >>}

sessionVars == << diskVars, fieldVars, loopVars, histVars >>

\* an original is chosen; the candidate starts as a copy of it
GuardInit ==
    /\ StartState
    /\ pc = "guard"
    /\ g_original \in GuardOriginals
    /\ g_enhanced = g_original
    /\ g_result = FALSE
    /\ g_edits = 0
    /\ a_content = EmptyBody /\ a_reply = NoReply /\ a_result = NoResult
    /\ RetryIdle

\* the provider's rewrite, one edit at a time: a line is added at the end,
\* removed, or reworded
GuardEdit(body) ==
    /\ pc = "guard"
    /\ g_edits < MaxEdits
    /\ g_edits' = g_edits + 1
    /\ g_enhanced' = body
    /\ UNCHANGED << sessionVars, pc, g_original, g_result, analysisVars, retryVars >>

AppendLine == \E name \in LineNames : GuardEdit(Append(g_enhanced, name))

DropLine == \E k \in 1..Len(g_enhanced) : GuardEdit(RemoveLine(g_enhanced, k))

RewordLine ==
    \E k \in 1..Len(g_enhanced) :
        /\ Reworded(g_enhanced[k]) # g_enhanced[k]
        /\ GuardEdit([g_enhanced EXCEPT ![k] = Reworded(g_enhanced[k])])

\* enhance_note hands the content and the rewrite to the guard
Validate ==
    /\ pc = "guard"
    /\ g_result' = validate_content_preservation(TextOf(g_original), TextOf(g_enhanced))
    /\ pc' = "validated"
    /\ UNCHANGED << sessionVars, g_original, g_enhanced, g_edits, analysisVars, retryVars >>

GuardNext == AppendLine \/ DropLine \/ RewordLine \/ Validate

GuardSpec == GuardInit /\ [][GuardNext]_vars


(***************************************************************************)
(* The assessment exercised alone                                          *)
(***************************************************************************)

\* the contents handed to the assessment
AnalysisContents == {EmptyBody, << "blank" >>, Body2}

\* a content and a provider reply are chosen
AnalysisInit ==
    /\ StartState
    /\ pc = "analysis"
    /\ g_original = EmptyBody /\ g_enhanced = EmptyBody /\ g_result = FALSE
    /\ g_edits = 0
    /\ a_content \in AnalysisContents
    /\ a_reply \in Replies
    /\ a_result = NoResult
    /\ RetryIdle

\* review_vault: analysis = self.analyze_note_relevance(file_path, content)
AnalyseNote ==
    /\ pc = "analysis"
    /\ a_result' = analyze_note_relevance(TextOf(a_content), a_reply)
    /\ pc' = "analysed"
    /\ UNCHANGED << sessionVars, guardVars, a_content, a_reply, retryVars >>

AnalysisNext == AnalyseNote

AnalysisSpec == AnalysisInit /\ [][AnalysisNext]_vars

(***************************************************************************)
(* The assessment call under the retry loop                                *)
(***************************************************************************)

\* the replies of a provider call that succeeds
RetryReplies ==
    {r \in Replies : r.kind = "object" /\ r.score_type = "number"
                     /\ r.score \in {4, 8} /\ r.recommendation = "keep"}

\* analyze_note_relevance has built its prompt for a non-blank note and
\* enters handle_rate_limiting
RetryInit ==
    /\ StartState
    /\ pc = "retry"
    /\ g_original = EmptyBody /\ g_enhanced = EmptyBody /\ g_result = FALSE
    /\ g_edits = 0
    /\ a_content = Body2 /\ a_reply = NoReply /\ a_result = NoResult
    /\ r_max_retries \in 0..MaxRetries
    /\ r_base_delay \in {1, 5}
    /\ r_attempt = 0 /\ r_calls = 0 /\ r_sleeps = 0 /\ r_delay = 0
    /\ r_error = "none"
    /\ r_status = "running"

\* return func(*args, **kwargs)
CallReturns ==
    /\ pc = "retry" /\ r_status = "running"
    /\ r_calls' = r_calls + 1
    /\ r_status' = "returned"
    /\ r_error' = "none"
    /\ a_reply' \in RetryReplies
    /\ UNCHANGED << sessionVars, pc, guardVars, a_content, a_result, r_max_retries,
                    r_base_delay, r_attempt, r_sleeps, r_delay >>

\* the call raises: a transient error is raised again on the last attempt and
\* slept on before the next one otherwise; any other error is raised at once
CallRaises ==
    /\ pc = "retry" /\ r_status = "running"
    /\ r_calls' = r_calls + 1
    /\ \E err \in ProviderErrors, jitter \in {0, 1} :
         /\ r_error' = err
         /\ IF is_transient(err)
            THEN IF retries_exhausted(r_attempt, r_max_retries)
                 THEN /\ r_status' = "raised_transient"
                      /\ UNCHANGED << r_attempt, r_sleeps, r_delay >>
                 ELSE /\ r_delay' = backoff_delay(r_base_delay, r_attempt, jitter)
                      /\ r_sleeps' = r_sleeps + 1
                      /\ r_attempt' = r_attempt + 1
                      /\ UNCHANGED r_status
            ELSE /\ r_status' = "raised_other"
                 /\ UNCHANGED << r_attempt, r_sleeps, r_delay >>
    /\ UNCHANGED << sessionVars, pc, guardVars, analysisVars, r_max_retries,
                    r_base_delay >>

\* the rest of analyze_note_relevance: the reply is parsed and validated, or
\* the error raised by the loop is caught by the except branch
AnalyseReply ==
    /\ pc = "retry" /\ r_status \in {"returned", "raised_transient", "raised_other"}
    /\ a_result' = IF r_status = "returned"
                   THEN analyze_note_relevance(TextOf(a_content), a_reply)
                   ELSE analyze_note_relevance(TextOf(a_content),
                                               [NoReply EXCEPT !.kind = "error"])
    /\ pc' = "analysed"
    /\ UNCHANGED << sessionVars, guardVars, a_content, a_reply, retryVars >>

RetryNext == CallReturns \/ CallRaises \/ AnalyseReply

RetrySpec == RetryInit /\ [][RetryNext]_vars

\* a provider call comes back and a sleep ends
RetryFairSpec == RetrySpec /\ WF_vars(RetryNext)

(***************************************************************************)
(* Properties                                                              *)
(***************************************************************************)

\* the notes of the work list not offered yet
Pending == {files_to_process[j] : j \in (i + 1)..Len(files_to_process)}

\* the finalized set of the checkpoint on disk, as a restart would read it
DiskFinalized ==
    IF progress_file.kind = "ok" THEN progress_file.processed_files ELSE {}

\* control is between the offering of a note and its finalization
Offering == pc \in {"prompt", "enh_confirm", "enh_prompt", "record"}

\* control is inside the review loop or the saves around it
InLoop == pc \in {"save_open", "save_dump", "loop", "prompt", "enh_confirm",
                  "enh_prompt", "record", "after", "finish"}

\* C1: in a session continued from a checkpoint, the notes still to be offered
\* are disjoint from the finalized set, and the note being offered, whether it
\* came from the enumeration or from the insertion of new notes, is not in it.
C1_ResumeNeverReoffers ==
    (continuing_session /\ InLoop) =>
        /\ Pending \cap processed_files = {}
        /\ Offering => file_path \notin processed_files

\* a continued session with a non-empty finalized set is offering a note
C1_Witness ==
    /\ continuing_session /\ pc = "prompt"
    /\ processed_files # {}
    /\ file_path \notin processed_files

\* C2: with no failure of the environment, the checkpoint on disk lacks at most
\* the note in flight of the finalized set in memory, at every point of a run.
C2_WriteThrough ==
    (Running /\ faults = 0) => processed_files \ DiskFinalized \subseteq {file_path}

\* C3: with no failure of the environment, the checkpoint file is never an
\* empty or cut document.
C3_CheckpointAlwaysComplete ==
    faults = 0 => progress_file.kind # "truncated"

\* C4: while a note is under enhancement, its file is written only by the
\* confirmed save of a content the guard accepted against the content read.
C4_OnlyValidatedIsWritten ==
    [][(/\ pc \in {"prompt", "enh_confirm"}
        /\ file_path \in DOMAIN vault'
        /\ file_path \in DOMAIN vault => vault'[file_path] # vault[file_path])
       => /\ pc = "enh_confirm"
          /\ validate_content_preservation(TextOf(content), TextOf(enhanced_content))]_vars

\* an enhancement ended without an accepted rewrite and the note is as read
C4_Witness ==
    /\ pc = "prompt" /\ decision = "enhance"
    /\ enhanced_content = EmptyBody
    /\ content # EmptyBody
    /\ file_path \in DOMAIN vault /\ vault[file_path] = content

\* a non-blank line of the original is present in the candidate: it occurs in
\* it, or one of the candidate's lines matches it by the guard's own rules
LinePresent(line, enhanced) ==
    \/ IsSubstring(normalize_text(line), normalize_text(enhanced))
    \/ \E j \in 1..Len(StrippedLines(enhanced)) :
           LineMatches(line, StrippedLines(enhanced)[j])

\* C5: whenever the guard has accepted a candidate, every non-blank line of
\* the original is present in the candidate.
C5_AcceptedKeepsEveryLine ==
    (pc = "validated" /\ g_result) =>
        \A k \in 1..Len(StrippedLines(TextOf(g_original))) :
            LinePresent(StrippedLines(TextOf(g_original))[k], TextOf(g_enhanced))

\* C6: a note file is removed at the head of an iteration, that is without the
\* operator's delete decision, only when the note was read without failure.
C6_NoDeletionOnFailure ==
    [][(pc = "loop" /\ DOMAIN vault # DOMAIN vault') => ~read_failed']_vars

\* C7: with no failure of the environment, no note is in both the kept list
\* and the deleted list.
C7_KeptDeletedExclusive ==
    faults = 0 => Range(kept_files) \cap Range(deleted_files) = {}

\* C8: from the first save of a session to its end, no step removes a note
\* from the finalized set.
C8_FinalizedOnlyGrows ==
    [][(InLoop /\ InLoop') => processed_files \subseteq processed_files']_vars

\* a second note has been finalized in the loop
C8_Witness ==
    /\ pc = "after"
    /\ Cardinality(processed_files) >= 2

\* C9: with no failure of the environment, every finalized note that is
\* recorded as enhanced is in the kept list or in the deleted list.
C9_EnhancedIsResolved ==
    faults = 0 =>
        \A f \in processed_files \cap Range(enhanced_files) :
            f \in Range(kept_files) \cup Range(deleted_files)

\* C10: when load_progress returns False, no field of the object has changed.
C10_FailedLoadAppliesNothing ==
    [][(pc = "load" /\ pc' = "configure")
       => UNCHANGED << listVars, original_session_start, config >>]_vars

\* C11: load_progress on a checkpoint of another vault returns False with the
\* finalized set and the lists as __init__ left them, and the enumeration that
\* follows, with that checkpoint still on disk, holds every note of the vault.
C11_RootMismatchFailsClosed ==
    [][(progress_file.kind = "ok" /\ progress_file.vault_path # ThisVault)
       => /\ (pc = "load" /\ pc' # "down") =>
               /\ pc' = "configure"
               /\ UNCHANGED << listVars, original_session_start, config >>
               /\ processed_files' = {}
               /\ deleted_files' = << >> /\ kept_files' = << >>
               /\ enhanced_files' = << >>
               /\ atomic_notes_created' = << >> /\ atomic_notes_reviewed' = << >>
          /\ (pc = "scan" /\ pc' = "save_open") =>
               /\ ~continuing_session
               /\ Range(files_to_process') = DOMAIN vault]_vars

\* a session has enumerated the whole vault while the checkpoint of another
\* vault, naming one of its notes as finalized, is on disk
C11_Witness ==
    /\ pc = "save_open" /\ i = 0
    /\ progress_file.kind = "ok" /\ progress_file.vault_path = OtherVault
    /\ progress_file.processed_files \cap DOMAIN vault # {}
    /\ Range(files_to_process) = DOMAIN vault

C13_QuitWritesLast ==
    (pc = "finish" /\ faults = 0) => progress_file = ProgressData

\* the part of the work list that is still to be offered
PendingSeq(files, pos) == SubSeq(files, pos + 1, Len(files))

IsAscending(l) == \A j, k \in 1..Len(l) : j < k => l[j] < l[k]

\* C14: with no failure of the environment, the insertion of the newly created
\* notes at the end of an iteration leaves an ascending pending part of the
\* work list ascending.
C14_InsertionKeepsOrder ==
    [][(pc = "after" /\ pc' # "down" /\ faults = 0
        /\ IsAscending(PendingSeq(files_to_process, i)))
       => IsAscending(PendingSeq(files_to_process', i'))]_vars

\* the number of occurrences of key k in list l
Occurrences(l, k) == Cardinality({j \in 1..Len(l) : l[j] = k})

\* C15: when the queue of newly created notes is emptied into the work list, a
\* key that is finalized or already in the list is not inserted, any other key
\* of the queue is in the pending part exactly once afterwards, and doing the
\* same insertion again on the result changes nothing.
C15_InsertionIdempotent ==
    [][(pc = "after" /\ pc' # "down") =>
          /\ \A k \in Range(new_atomic_notes_queue) :
                IF k \in processed_files \/ k \in Range(files_to_process)
                THEN Occurrences(files_to_process', k) = Occurrences(files_to_process, k)
                ELSE /\ Occurrences(PendingSeq(files_to_process', i'), k) = 1
                     /\ Occurrences(files_to_process', k) = 1
          /\ InsertNewNotes(files_to_process', i', SortList(new_atomic_notes_queue))
                 = files_to_process']_vars

\* an atomic note was created a second time after its first copy had been
\* finalized, the queue has been emptied and the note is not pending again
C15_Witness ==
    /\ pc = "loop"
    /\ Len(atomic_notes_created) >= 2
    /\ \E k \in Range(atomic_notes_created) :
          /\ k \in processed_files /\ k \in DOMAIN vault
          /\ k \notin Pending

\* C16: with no failure of the environment, the work list of a continued
\* session is, when the enumeration returns it, the notes of the vault outside
\* the finalized set in ascending order, and no note recorded as kept before
\* the interruption is in the part of it still to be offered.
C16_ResumeWorkList ==
    (continuing_session /\ InLoop /\ faults = 0) =>
        /\ (pc = "save_open" /\ i = 0) =>
               files_to_process = SortedSeq(DOMAIN vault \ processed_files)
        /\ Range(kept_files) \cap Pending = {}

\* the text X + "\nextra paragraph"
WithExtraParagraph(text) == text \o << NL >> \o LineText("extra")

\* C17: for the original and for the candidate of every guard run, taken as
\* the text X: the guard accepts X against itself, rejects the empty text
\* against a non-empty X, and accepts X followed by an extra paragraph; and
\* the result the run stored agrees when the candidate is one of these.
C17_GuardReferenceCases ==
    /\ \A body \in {g_original, g_enhanced} :
          LET X == TextOf(body) IN
          /\ validate_content_preservation(X, X)
          /\ X # << >> => ~validate_content_preservation(X, << >>)
          /\ validate_content_preservation(X, WithExtraParagraph(X))
    /\ pc = "validated" =>
          /\ g_enhanced = g_original => g_result
          /\ (TextOf(g_enhanced) = << >> /\ TextOf(g_original) # << >>) => ~g_result
          /\ g_enhanced = Append(g_original, "extra") => g_result

\* the guard has accepted a non-empty original followed by the extra paragraph
C17_Witness ==
    /\ pc = "validated" /\ g_result
    /\ g_original # EmptyBody
    /\ g_enhanced = Append(g_original, "extra")

\* C18: whenever the guard has accepted a candidate, every cross-reference,
\* tag and embedded image of the original is among the candidate's.
C18_AcceptedKeepsMarkers ==
    (pc = "validated" /\ g_result) =>
        MarkersPreserved(TextOf(g_original), TextOf(g_enhanced))

\* C19: whatever the content and whatever the provider call gives back, the
\* assessment returns a score between 0 and 10 and a verdict among remove,
\* enhance and keep.
C19_AssessmentWellFormed ==
    pc = "analysed" =>
        /\ a_result.score \in 0..10
        /\ a_result.recommendation \in Recommendations

\* an assessment has been returned for a reply that was no JSON and in which
\* the only score found lies past the range
C19_Witness ==
    /\ pc = "analysed"
    /\ ~IsBlank(TextOf(a_content))
    /\ a_reply.kind = "unparsed"
    /\ a_reply.matches # << >>
    /\ \A k \in 1..Len(a_reply.matches) : a_reply.matches[k] > 10
    /\ a_result.score = 5

\* C20: for a non-blank note and a reply that is no JSON, also after cleaning,
\* in which the fallback parser finds no score or only scores outside 0..10,
\* the assessment is the score 5 with the verdict "enhance".
C20_MalformedReplyDefault ==
    (/\ pc = "analysed"
     /\ ~IsBlank(TextOf(a_content))
     /\ a_reply.kind = "unparsed"
     /\ \A k \in 1..Len(a_reply.matches) :
            ~(0 <= a_reply.matches[k] /\ a_reply.matches[k] <= 10))
    => a_result = DefaultAnalysis

\* the retry loop has ended
RetryEnded == r_status \in {"returned", "raised_transient", "raised_other"}

\* C21: the retry loop calls the provider at most max_retries + 1 times and
\* sleeps at most max_retries times, never longer than the ceiling; it returns
\* at the first call that succeeds, raises the transient error when the call
\* number max_retries + 1 fails, makes no call once it has ended, and it ends.
C21_RetryBoundedAndEnds ==
    /\ [](r_status # "none" =>
            /\ r_calls <= r_max_retries + 1
            /\ r_sleeps <= r_max_retries
            /\ r_delay <= DelayCap
            /\ r_status = "running" => r_calls = r_attempt /\ r_sleeps = r_attempt
            /\ r_status = "returned" => r_calls = r_attempt + 1 /\ r_sleeps = r_attempt
            /\ r_status = "raised_transient" =>
                   r_calls = r_max_retries + 1 /\ r_sleeps = r_max_retries)
    /\ [][RetryEnded => UNCHANGED << r_calls, r_sleeps, r_status >>]_vars
    /\ <>RetryEnded

\* the default number of retries is used up: six calls, five sleeps
C21_Witness ==
    /\ r_status = "raised_transient"
    /\ r_max_retries = 5
    /\ r_calls = 6 /\ r_sleeps = 5

\* C22: an error that is neither ResourceExhausted nor ServiceUnavailable ends
\* the loop in the step that receives it, on the first attempt or on a retry,
\* and no call and no sleep follow.
C22_OtherErrorsNotRetried ==
    /\ [](r_status # "none" =>
            /\ (r_error \notin {"none", "ResourceExhausted", "ServiceUnavailable"})
                   <=> r_status = "raised_other"
            /\ r_status = "raised_other" =>
                   r_calls = r_attempt + 1 /\ r_sleeps = r_attempt)
    /\ [][r_status = "raised_other" => UNCHANGED << r_calls, r_sleeps, r_status >>]_vars

\* another error was raised on a retry, after two transient ones
C22_Witness ==
    /\ r_status = "raised_other"
    /\ r_error = "InvalidArgument"
    /\ r_calls = 3 /\ r_sleeps = 2

\* C23: when the retry loop of the assessment call has raised the transient
\* error of its last attempt, the assessment returned is the score 5 with the
\* verdict "enhance".
C23_ExhaustedRetriesDegrade ==
    (pc = "analysed" /\ r_status = "raised_transient") =>
        a_result = [score |-> 5, recommendation |-> "enhance"]

\* every one of several attempts failed and an assessment was returned
C23_Witness ==
    /\ pc = "analysed" /\ r_status = "raised_transient"
    /\ r_calls = r_max_retries + 1 /\ r_calls >= 2
    /\ a_result # NoResult

\* a step of save_progress in which the open or the write failed
SaveFailed ==
    /\ pc \in {"save_open", "save_dump"}
    /\ faults' = faults + 1
    /\ ~SignalHandler

\* C24: when opening or writing the checkpoint fails, save_progress returns to
\* its caller in the traversal, the finalized set and the lists are what they
\* were, and the position in the work list is kept, so the loop goes on.
C24_SaveFailureContinues ==
    [][SaveFailed =>
          /\ pc' = save_return /\ pc' \in {"loop", "after"}
          /\ UNCHANGED << processed_files, deleted_files, kept_files, enhanced_files,
                          atomic_notes_created, atomic_notes_reviewed >>
          /\ UNCHANGED << files_to_process, i, decision >>]_vars

\* the write after the first note failed and the loop is at the second note
C24_Witness ==
    /\ pc = "loop" /\ i = 1 /\ i < Len(files_to_process)
    /\ faults = 1
    /\ progress_file = Truncated
    /\ processed_files # {}

\* the three ways a candidate line matches an original line, the third being
\* containment after punctuation is removed and case is folded
ContainmentMatch(orig_line, enh_line) ==
    \/ orig_line = enh_line
    \/ Len(orig_line) > 10 /\ IsSubstring(orig_line, enh_line)
    \/ Len(orig_line) > 5 /\ IsSubstring(CleanLine(orig_line), CleanLine(enh_line))

\* the third way asks in addition that something of the original line is left
\* once its punctuation is removed
NonEmptyContainmentMatch(orig_line, enh_line) ==
    \/ orig_line = enh_line
    \/ Len(orig_line) > 10 /\ IsSubstring(orig_line, enh_line)
    \/ /\ Len(orig_line) > 5
       /\ CleanLine(orig_line) # << >>
       /\ IsSubstring(CleanLine(orig_line), CleanLine(enh_line))

\* the decision rule for a way Match of matching lines: the candidate is not
\* shorter, and the normalized original is contained in the normalized candidate
\* or four fifths of the original lines are matched and the markers are kept
DecisionRule(original, enhanced, Match(_, _)) ==
    LET ol == StrippedLines(original)
        el == StrippedLines(enhanced)
        matched == Cardinality({k \in 1..Len(ol) :
                                    \E j \in 1..Len(el) : Match(ol[k], el[j])})
    IN /\ Len(enhanced) >= Len(original)
       /\ \/ IsSubstring(normalize_text(original), normalize_text(enhanced))
          \/ /\ 5 * matched >= 4 * Len(ol)
             /\ MarkersPreserved(original, enhanced)

\* the candidate that lost the line "ab" of the original and gained a paragraph
WithoutFirstLine(body) == Append(Tail(body), "extra")

NoDuplicates(l) == \A j, k \in 1..Len(l) : j # k => l[j] # l[k]

\* the traversal of this run has ended without a quit
TraversalDone ==
    pc = "loop" /\ i >= Len(files_to_process) /\ files_to_process # << >>

\* C26: the notes the loop has taken up are the work list up to the current
\* position, each once; a note enters the list only behind that position and
\* none leaves it; so when the loop ends without a quit, every note of the
\* list, enumerated or inserted, has been taken up exactly once.
C26_EveryNoteOfferedOnce ==
    /\ [](/\ offered = SubSeq(files_to_process, 1, i)
          /\ NoDuplicates(files_to_process)
          /\ TraversalDone => offered = files_to_process /\ NoDuplicates(offered))
    /\ [][(pc \in {"loop", "prompt", "enh_confirm", "enh_prompt", "record", "after",
                   "save_open", "save_dump"} /\ pc' # "down" /\ i > 0) =>
              /\ SubSeq(files_to_process', 1, i) = SubSeq(files_to_process, 1, i)
              /\ Range(files_to_process) \subseteq Range(files_to_process')
              /\ i' \in {i, i + 1}]_vars

\* the loop has ended after taking up the two notes of the vault and, between
\* them, the note that was created and inserted during the session
C26_Witness ==
    /\ TraversalDone
    /\ decision # "quit"
    /\ offered = << 2, 4, 5 >> \/ offered = << 2, 5, 4 >>

\* C27: outside the loading of a checkpoint, a key enters the deleted list only
\* in a step that removes the note's file, so every key in the list is a note
\* whose file was removed; a delete that failed leaves the list as it was and
\* hands the note on to be finalized, after which the loop goes on.
C27_DeletedMeansRemoved ==
    /\ [][(pc # "load" /\ Len(deleted_files') > Len(deleted_files)) =>
              \E f \in DOMAIN vault :
                  /\ f \notin DOMAIN vault'
                  /\ deleted_files' = Append(deleted_files, f)]_vars
    /\ [][(pc \in {"loop", "prompt", "enh_prompt"} /\ decision' = "delete"
           /\ file_path' \in DOMAIN vault') =>
              /\ deleted_files' = deleted_files
              /\ pc' = "record"]_vars

\* the removal of a note's file failed: the note is still there, is not in the
\* deleted list, and is about to be finalized
C27_Witness ==
    /\ pc = "record" /\ decision = "delete"
    /\ file_path \in DOMAIN vault
    /\ file_path \notin Range(deleted_files)
    /\ faults = 1 /\ ~read_failed

\* C28: in every checkpoint on disk, whoever wrote it, each key of the kept,
\* deleted and enhanced lists is in the finalized set.
C28_CheckpointListsFinalized ==
    progress_file.kind = "ok" =>
        (Range(progress_file.kept_files) \cup Range(progress_file.deleted_files)
             \cup Range(progress_file.enhanced_files))
            \subseteq progress_file.processed_files

\* C29: in every step in which save_enhanced_note overwrites a note, the guard
\* accepts the written content against the body the file holds before the step.
C29_OverwriteGuardedAgainstDisk ==
    [][(/\ pc = "enh_confirm"
        /\ Len(enhanced_files') > Len(enhanced_files)
        /\ file_path \in DOMAIN vault) =>
           validate_content_preservation(TextOf(vault[file_path]),
                                         TextOf(enhanced_content))]_vars

\* the operator answers 'skip' at the first prompt or at the prompt of an
\* enhanced note
SkipStep ==
    \/ pc = "prompt" /\ decision' = "skip"
    \/ /\ pc = "enh_prompt" /\ pc' = "record" /\ decision' # "quit"
       /\ file_path \in DOMAIN vault
       /\ UNCHANGED << vault, faults, kept_files, deleted_files >>

\* the note at hand was skipped at the first prompt and its checkpoint write
\* is over
SkippedAtHand == pc = "after" /\ decision = "skip"

\* C30: a skip hands the note on to be finalized and saved; the skipped note
\* is then in the finalized set and in neither the kept nor the deleted list,
\* in memory and in the checkpoint written for it; and no finalized note is
\* among the notes still to be taken up, in this session or a continued one.
C30_SkipIsFinal ==
    /\ [][SkipStep => pc' = "record"]_vars
    /\ [][(pc = "record" /\ pc' # "down") =>
              file_path \in processed_files' /\ pc' = "save_open"]_vars
    /\ []((SkippedAtHand /\ faults = 0) =>
              /\ progress_file.kind = "ok"
              /\ file_path \in progress_file.processed_files)
    /\ [](SkippedAtHand =>
              /\ file_path \notin Range(kept_files) \cup Range(deleted_files)
              /\ progress_file.kind = "ok" =>
                     file_path \notin Range(progress_file.kept_files)
                                          \cup Range(progress_file.deleted_files))
    /\ [](/\ \A j \in (i + 1)..Len(files_to_process) :
                 files_to_process[j] \notin processed_files
          /\ NoDuplicates(offered))
====
